---- MODULE Spec2Model ----
(***************************************************************************)
(* LJPW autopoietic engine: the force model, the inertia-weighted          *)
(* integrator, the derived metrics, the convergence tracker and the        *)
(* self-improvement loop of src/autopoietic_engine.py, over the            *)
(* coordinates and constants of src/ljpw_v77_core.py.                      *)
(*                                                                         *)
(* Reals are fixed-point integers: the real x is the integer x * S.        *)
(* Every product and quotient is rescaled at once and rounded to the       *)
(* nearest unit, so that no intermediate value leaves 32 bits.             *)
(***************************************************************************)
EXTENDS Integers, Sequences, FiniteSets, TLC

\* engine    the live AutopoieticEngine
\* heap      the DynamicParameters objects, by reference
\* si        the running (or last) self_improve call: its locals and its printed trace
\* exc       the exception the last call raised, or "none"
\* mutations the number of random_mutation calls made so far
\* built     the arguments the live engine was constructed from (never changed)
\* twin      a second engine constructed from equal arguments, with a parameter
\*           object of its own, and the dt values the live engine was stepped
\*           with that the second engine has not been stepped with yet
VARIABLES engine, heap, si, exc, mutations, built, twin, ret

vars == <<engine, heap, si, exc, mutations, built, twin, ret>>

(***************************************************************************)
(* Fixed-point arithmetic                                                  *)
(***************************************************************************)
S == 10 ^ 4

Abs(x) == IF x < 0 THEN -x ELSE x

Max2(a, b) == IF a > b THEN a ELSE b

Min2(a, b) == IF a < b THEN a ELSE b

\* a / b for b > 0, rounded to the nearest integer (half away from zero)
RoundDiv(a, b) == IF a >= 0 THEN (a + b \div 2) \div b ELSE -((-a + b \div 2) \div b)

\* the float product x * y
Mul(x, y) == RoundDiv(x * y, S)

\* the float quotient x / y, y > 0
Div(x, y) == RoundDiv(x * S, y)

\* int(x / y) of Python for y # 0: the quotient truncated toward zero
IntQuot(x, y) == IF (x >= 0) = (y > 0) THEN Abs(x) \div Abs(y) ELSE -(Abs(x) \div Abs(y))

\* Newton's iteration for the integer square root of q > 0, from a guess x above it
RECURSIVE SqrtNewton(_, _)
SqrtNewton(q, x) ==
  LET y == (x + q \div x) \div 2
  IN IF y < x THEN SqrtNewton(q, y) ELSE x

\* nearest integer to the square root of q, given r = floor of it
SqrtRound(q, r) == IF q - r * r > r THEN r + 1 ELSE r

\* math.sqrt of a value given in units of 1/S^2, result in units of 1/S, rounded
\* to the nearest unit
Sqrt(q) == IF q = 0 THEN 0 ELSE SqrtRound(q, SqrtNewton(q, 2 * S))

\* a clip that enforces the lower limit only
Clip_lower_only(x, lo, hi) == IF x < lo THEN lo ELSE x

\* np.clip(x, lo, hi)
Clip(x, lo, hi) == IF x < lo THEN lo ELSE IF x > hi THEN hi ELSE x

RECURSIVE SumSeq(_)
SumSeq(s) == IF s = <<>> THEN 0 ELSE Head(s) + SumSeq(Tail(s))

RECURSIVE MaxSeq(_)
MaxSeq(s) == IF Len(s) = 1 THEN s[1] ELSE Max2(Head(s), MaxSeq(Tail(s)))

(***************************************************************************)
(* LJPWConstants                                                           *)
(***************************************************************************)
SQRT2 == 14142

L0 == 6180

J0 == 4142

P0 == 7183

W0 == 6931

e_semantic == J0

m_e_semantic == 2361

m_p_semantic == 26180

AUTOPOLIETIC_H_THRESHOLD == 6000

AUTOPOLIETIC_L_THRESHOLD == 7000

HOMEOSTATIC_H_THRESHOLD == 5000

(***************************************************************************)
(* LJPWCoordinates                                                         *)
(***************************************************************************)
\* a constructor without __post_init__: the fields as given
LJPWCoordinates_unclipped(l, j, p, w) == [L |-> l, J |-> j, P |-> p, W |-> w]

\* the dataclass constructor with __post_init__: clip to the valid ranges
LJPWCoordinates(l, j, p, w) ==
  [L |-> Clip(l, 0, SQRT2), J |-> Clip(j, 0, S), P |-> Clip(p, 0, S), W |-> Clip(w, 0, S)]

distance_to_anchor(c) ==
  Sqrt((S - c.L) * (S - c.L) + (S - c.J) * (S - c.J)
       + (S - c.P) * (S - c.P) + (S - c.W) * (S - c.W))

distance_to_equilibrium(c) ==
  Sqrt((c.L - L0) * (c.L - L0) + (c.J - J0) * (c.J - J0)
       + (c.P - P0) * (c.P - P0) + (c.W - W0) * (c.W - W0))

harmony_static(c) == Div(S, S + distance_to_anchor(c))

gift_of_finitude(c) == distance_to_anchor(c)

normalized_gap(c) == RoundDiv(distance_to_anchor(c), 2)

proximity_to_anchor(c) == S - normalized_gap(c)

is_finite(c) == distance_to_anchor(c) > 0

\* static mode (self_referential = False), the mode _record_step uses
consciousness(c) ==
  LET H == harmony_static(c)
  IN IF c.L <= 0 \/ c.J <= 0 \/ c.P <= 0 \/ c.W <= 0 THEN 0
     ELSE Mul(Mul(Mul(Mul(c.P, c.W), c.L), c.J), Mul(H, H))

phase(c) ==
  LET H == harmony_static(c)
  IN IF H < HOMEOSTATIC_H_THRESHOLD THEN "ENTROPIC"
     ELSE IF H < AUTOPOLIETIC_H_THRESHOLD \/ c.L < AUTOPOLIETIC_L_THRESHOLD THEN "HOMEOSTATIC"
     ELSE "AUTOPOIETIC"

(***************************************************************************)
(* EntropyMechanics                                                        *)
(***************************************************************************)
semantic_entropy(c) == Mul(c.W, S - harmony_static(c))

\* EntropyMechanics.entropy_production(state, delta_state)
entropy_production(c, delta_state) ==
  LET current_S == semantic_entropy(c)
      prev_state == LJPWCoordinates(c.L - delta_state.L, c.J - delta_state.J,
                                    c.P - delta_state.P, c.W - delta_state.W)
      previous_S == semantic_entropy(prev_state)
  IN current_S - previous_S

\* the float product x * y for 0 <= x beyond the range of Mul: x is split into its
\* whole part and its fraction
MulWide(x, y) == (x \div S) * y + RoundDiv((x % S) * y, S)

\* H_self = (L * J * P * W) / (L0 * J0 * P0 * W0)
harmony_self(c) ==
  LET numerator == Mul(Mul(Mul(c.L, c.J), c.P), c.W)
      denominator == Mul(Mul(Mul(L0, J0), P0), W0)
  IN IF denominator = 0 THEN 0 ELSE Div(numerator, denominator)

harmony(c, self_referential) ==
  IF self_referential THEN harmony_self(c) ELSE harmony_static(c)

\* a consciousness that multiplies by the harmony once, not by its square
consciousness_mode_unsquared(c, self_referential) ==
  LET H == harmony(c, self_referential)
  IN IF c.L <= 0 \/ c.J <= 0 \/ c.P <= 0 \/ c.W <= 0 THEN 0
     ELSE MulWide(H, Mul(Mul(Mul(c.P, c.W), c.L), c.J))

\* consciousness(self_referential): C = P * W * L * J * H ** 2
consciousness_mode(c, self_referential) ==
  LET H == harmony(c, self_referential)
  IN IF c.L <= 0 \/ c.J <= 0 \/ c.P <= 0 \/ c.W <= 0 THEN 0
     ELSE MulWide(MulWide(H, H), Mul(Mul(Mul(c.P, c.W), c.L), c.J))

\* a classification whose comparisons take the boundary values into the lower class
phase_mode_boundary_low(c, self_referential) ==
  LET H == harmony(c, self_referential)
  IN IF H <= HOMEOSTATIC_H_THRESHOLD THEN "ENTROPIC"
     ELSE IF H <= AUTOPOLIETIC_H_THRESHOLD \/ c.L <= AUTOPOLIETIC_L_THRESHOLD
          THEN "HOMEOSTATIC"
          ELSE "AUTOPOIETIC"

\* phase(self_referential)
phase_mode(c, self_referential) ==
  LET H == harmony(c, self_referential)
  IN IF H < HOMEOSTATIC_H_THRESHOLD THEN "ENTROPIC"
     ELSE IF H < AUTOPOLIETIC_H_THRESHOLD \/ c.L < AUTOPOLIETIC_L_THRESHOLD
          THEN "HOMEOSTATIC"
          ELSE "AUTOPOIETIC"

(***************************************************************************)
(* DynamicParameters                                                       *)
(***************************************************************************)
Keys == {"alpha_LJ", "alpha_LW", "alpha_JL", "alpha_JW", "alpha_PL", "alpha_PJ",
         "alpha_WL", "alpha_WJ", "alpha_WP", "beta_L", "beta_J", "beta_P", "beta_W",
         "gamma", "K_JL"}

DynamicParameters ==
  [alpha_LJ |-> 1200, alpha_LW |-> 1200, alpha_JL |-> 1400, alpha_JW |-> 1400,
   alpha_PL |-> 1200, alpha_PJ |-> 1200, alpha_WL |-> 1000, alpha_WJ |-> 1000,
   alpha_WP |-> 1000, beta_L |-> 2000, beta_J |-> 2000, beta_P |-> 2000,
   beta_W |-> 2400, gamma |-> 800, K_JL |-> 5900]

\* the hard floor of random_mutation, 0.01
FLOOR == 100

\* random_mutation(rate) under the noise draws u: u[k] / UnitSteps is the draw of
\* np.random.uniform(-1, 1) that scales rate for coefficient k
UnitSteps == 2

\* a mutation without the floor: setattr(self, key, val + noise)
random_mutation_unfloored(p, rate, u) ==
  [k \in Keys |->
     IF p[k] > 0
     THEN LET noise == Mul(RoundDiv(rate * u[k], UnitSteps), p[k])
          IN p[k] + noise
     ELSE p[k]]

\* a mutation whose noise spans twice the rate
random_mutation_double_noise(p, rate, u) ==
  [k \in Keys |->
     IF p[k] > 0
     THEN LET noise == Mul(RoundDiv(2 * rate * u[k], UnitSteps), p[k])
          IN Max2(FLOOR, p[k] + noise)
     ELSE p[k]]

random_mutation(p, rate, u) ==
  [k \in Keys |->
     IF p[k] > 0
     THEN LET noise == Mul(RoundDiv(rate * u[k], UnitSteps), p[k])
          IN Max2(FLOOR, p[k] + noise)
     ELSE p[k]]

(***************************************************************************)
(* TimeConstants                                                           *)
(***************************************************************************)
TimeConstants == [tau_L |-> 10000, tau_J |-> 20000, tau_P |-> 50000, tau_W |-> 5000]

(***************************************************************************)
(* AutopoieticEngine                                                       *)
(* An engine holds its parameters by reference: params is an index into    *)
(* heap, the sequence of DynamicParameters objects.                        *)
(***************************************************************************)
\* __init__: the arguments are stored as given, nothing is copied
AutopoieticEngine(initial_state, time_constants, params) ==
  [state |-> initial_state,
   tau |-> time_constants,
   params |-> params,
   history |-> <<>>,
   time_elapsed |-> 0,
   tick_count |-> 0,
   model |-> [efficiency_trend |-> <<>>, entropy_trend |-> <<>>, gap_trend |-> <<>>,
              best_efficiency |-> 0, convergence |-> FALSE]]

\* a force model whose Power equation lacks the decay term - beta_P * P
calculate_forces_no_power_decay(p, c) ==
  LET H == harmony_static(c)
      kappa_LJ == S + Mul(4000, H)
      kappa_LP == S + Mul(3000, H)
      kappa_LW == S + Mul(5000, H)
      F_L == Mul(Mul(p.alpha_LJ, c.J), kappa_LJ) + Mul(Mul(p.alpha_LW, c.W), kappa_LW)
             - Mul(p.beta_L, c.L)
      erosion == Mul(Mul(p.gamma, c.P), S - Div(c.W, W0))
      F_J == Mul(p.alpha_JL, Div(c.L, p.K_JL + c.L)) + Mul(p.alpha_JW, c.W)
             - erosion - Mul(p.beta_J, c.J)
      F_P == Mul(Mul(p.alpha_PL, c.L), kappa_LP) + Mul(p.alpha_PJ, c.J)
      F_W == Mul(Mul(p.alpha_WL, c.L), kappa_LW) + Mul(p.alpha_WJ, c.J)
             + Mul(p.alpha_WP, c.P) - Mul(p.beta_W, c.W)
  IN <<F_L, F_J, F_P, F_W>>

\* calculate_forces(state) under the parameter values p
calculate_forces(p, c) ==
  LET H == harmony_static(c)
      kappa_LJ == S + Mul(4000, H)
      kappa_LP == S + Mul(3000, H)
      kappa_LW == S + Mul(5000, H)
      F_L == Mul(Mul(p.alpha_LJ, c.J), kappa_LJ) + Mul(Mul(p.alpha_LW, c.W), kappa_LW)
             - Mul(p.beta_L, c.L)
      erosion == Mul(Mul(p.gamma, c.P), S - Div(c.W, W0))
      F_J == Mul(p.alpha_JL, Div(c.L, p.K_JL + c.L)) + Mul(p.alpha_JW, c.W)
             - erosion - Mul(p.beta_J, c.J)
      F_P == Mul(Mul(p.alpha_PL, c.L), kappa_LP) + Mul(p.alpha_PJ, c.J) - Mul(p.beta_P, c.P)
      F_W == Mul(Mul(p.alpha_WL, c.L), kappa_LW) + Mul(p.alpha_WJ, c.J)
             + Mul(p.alpha_WP, c.P) - Mul(p.beta_W, c.W)
  IN <<F_L, F_J, F_P, F_W>>

\* the safety clipping of step: no acceleration beyond 0.05
max_change == 500

\* the per-dimension inertia weights of step
inertias == <<m_e_semantic, e_semantic, m_p_semantic, S>>

calculate_efficiency(e) == Mul(harmony_static(e.state), e.state.P)

\* the window and the threshold of the convergence test
WINDOW == 10

VAR_THRESHOLD == 10 ^ 4

\* np.var: the mean of the squared deviations from the mean
Var(s) ==
  LET mean == RoundDiv(SumSeq(s), Len(s))
  IN RoundDiv(SumSeq([i \in 1..Len(s) |-> (s[i] - mean) * (s[i] - mean)]), Len(s))

\* the guard of the convergence test on the length of the efficiency trend
TrendLongEnough(n) == n > WINDOW

\* a best_efficiency that follows the latest efficiency
running_best_latest(best_efficiency, efficiency) == efficiency

\* if efficiency > self.model['best_efficiency']: it becomes the efficiency
running_best(best_efficiency, efficiency) ==
  IF efficiency > best_efficiency THEN efficiency ELSE best_efficiency

\* a recording that leaves the gap trend as it was
_record_step_without_gap(e, forces, accelerations) ==
  LET efficiency == calculate_efficiency(e)
      entropy == semantic_entropy(e.state)
      gap == gift_of_finitude(e.state)
      trend == Append(e.model.efficiency_trend, efficiency)
      recent == SubSeq(trend, Len(trend) - WINDOW + 1, Len(trend))
      m == [efficiency_trend |-> trend,
            entropy_trend |-> Append(e.model.entropy_trend, entropy),
            gap_trend |-> e.model.gap_trend,
            best_efficiency |-> running_best(e.model.best_efficiency, efficiency),
            convergence |-> IF TrendLongEnough(Len(trend))
                            THEN Var(recent) < VAR_THRESHOLD
                            ELSE e.model.convergence]
      rec == [time |-> e.time_elapsed,
              tick |-> e.tick_count,
              state |-> <<e.state.L, e.state.J, e.state.P, e.state.W>>,
              forces |-> forces,
              accelerations |-> accelerations,
              efficiency |-> efficiency,
              entropy |-> entropy,
              harmony |-> harmony_static(e.state),
              consciousness |-> consciousness(e.state),
              phase |-> phase(e.state),
              gift_of_finitude |-> gap,
              proximity_to_anchor |-> proximity_to_anchor(e.state),
              is_finite |-> is_finite(e.state)]
  IN [e EXCEPT !.model = m, !.history = Append(e.history, rec)]

_record_step(e, forces, accelerations) ==
  LET efficiency == calculate_efficiency(e)
      entropy == semantic_entropy(e.state)
      gap == gift_of_finitude(e.state)
      trend == Append(e.model.efficiency_trend, efficiency)
      recent == SubSeq(trend, Len(trend) - WINDOW + 1, Len(trend))
      m == [efficiency_trend |-> trend,
            entropy_trend |-> Append(e.model.entropy_trend, entropy),
            gap_trend |-> Append(e.model.gap_trend, gap),
            best_efficiency |-> running_best(e.model.best_efficiency, efficiency),
            convergence |-> IF TrendLongEnough(Len(trend))
                            THEN Var(recent) < VAR_THRESHOLD
                            ELSE e.model.convergence]
      rec == [time |-> e.time_elapsed,
              tick |-> e.tick_count,
              state |-> <<e.state.L, e.state.J, e.state.P, e.state.W>>,
              forces |-> forces,
              accelerations |-> accelerations,
              efficiency |-> efficiency,
              entropy |-> entropy,
              harmony |-> harmony_static(e.state),
              consciousness |-> consciousness(e.state),
              phase |-> phase(e.state),
              gift_of_finitude |-> gap,
              proximity_to_anchor |-> proximity_to_anchor(e.state),
              is_finite |-> is_finite(e.state)]
  IN [e EXCEPT !.model = m, !.history = Append(e.history, rec)]

\* a step whose accelerations carry a noise term seeded by the identity of the
\* engine's parameter object
step_seeded(e, p, dt) ==
  LET forces == calculate_forces(p, e.state)
      accelerations == [i \in 1..4 |-> Clip(Div(forces[i], inertias[i]) + (e.params - 1),
                                            -max_change, max_change)]
      new_L == e.state.L + Mul(accelerations[1], dt)
      new_J == e.state.J + Mul(accelerations[2], dt)
      new_P == e.state.P + Mul(accelerations[3], dt)
      new_W == e.state.W + Mul(accelerations[4], dt)
      e1 == [e EXCEPT !.state = LJPWCoordinates(new_L, new_J, new_P, new_W),
                      !.time_elapsed = e.time_elapsed + dt,
                      !.tick_count = e.tick_count + 1]
  IN _record_step(e1, forces, accelerations)

\* a step that leaves the tick counter alone
step_without_tick(e, p, dt) ==
  LET forces == calculate_forces(p, e.state)
      accelerations == [i \in 1..4 |-> Clip(Div(forces[i], inertias[i]), -max_change, max_change)]
      new_L == e.state.L + Mul(accelerations[1], dt)
      new_J == e.state.J + Mul(accelerations[2], dt)
      new_P == e.state.P + Mul(accelerations[3], dt)
      new_W == e.state.W + Mul(accelerations[4], dt)
      e1 == [e EXCEPT !.state = LJPWCoordinates(new_L, new_J, new_P, new_W),
                      !.time_elapsed = e.time_elapsed + dt]
  IN _record_step(e1, forces, accelerations)

\* step(dt) of an engine whose parameters hold the values p
\* a step that takes its inertia weights from the engine's time constants
step_tau_weighted(e, p, dt) ==
  LET forces == calculate_forces(p, e.state)
      weights == <<e.tau.tau_L, e.tau.tau_J, e.tau.tau_P, e.tau.tau_W>>
      accelerations == [i \in 1..4 |-> Clip(Div(forces[i], weights[i]), -max_change, max_change)]
      new_L == e.state.L + Mul(accelerations[1], dt)
      new_J == e.state.J + Mul(accelerations[2], dt)
      new_P == e.state.P + Mul(accelerations[3], dt)
      new_W == e.state.W + Mul(accelerations[4], dt)
      e1 == [e EXCEPT !.state = LJPWCoordinates(new_L, new_J, new_P, new_W),
                      !.time_elapsed = e.time_elapsed + dt,
                      !.tick_count = e.tick_count + 1]
  IN _record_step(e1, forces, accelerations)

step(e, p, dt) ==
  LET forces == calculate_forces(p, e.state)
      accelerations == [i \in 1..4 |-> Clip(Div(forces[i], inertias[i]), -max_change, max_change)]
      new_L == e.state.L + Mul(accelerations[1], dt)
      new_J == e.state.J + Mul(accelerations[2], dt)
      new_P == e.state.P + Mul(accelerations[3], dt)
      new_W == e.state.W + Mul(accelerations[4], dt)
      e1 == [e EXCEPT !.state = LJPWCoordinates(new_L, new_J, new_P, new_W),
                      !.time_elapsed = e.time_elapsed + dt,
                      !.tick_count = e.tick_count + 1]
  IN _record_step(e1, forces, accelerations)

\* for _ in range(n): e.step(dt); the n calls are taken as the first n \div 2 of
\* them, whose result is computed first, followed by the rest
RECURSIVE Steps(_, _, _, _)
Steps(e, p, dt, n) ==
  IF n <= 0 THEN e
  ELSE IF n = 1 THEN step(e, p, dt)
  ELSE CHOOSE last \in {Steps(first, p, dt, n - (n \div 2)) :
                          first \in {Steps(e, p, dt, n \div 2)}} : TRUE

\* simulate(duration, dt), dt # 0
simulate(e, p, duration, dt) == Steps(e, p, dt, IntQuot(duration, dt))

(***************************************************************************)
(* Bounds and inputs                                                       *)
(***************************************************************************)
\* the live engine is stepped up to MaxTicks times while its parameters are the
\* ones it was built with, and up to MaxTunedTicks times once they were mutated
MaxTicks == 11

MaxTunedTicks == 2

MaxTicksAnyDt == 4

MaxMutations == 2

MaxIterations == 2

MaxTwinTicks == 5

MaxBelowUlpSteps == 2

MaxScenarioTicks == 100

\* raw constructor inputs, in and out of the valid ranges
EqInput == <<L0, J0, P0, W0>>

ImbalancedInput == <<3000, 5000, 9000, 5000>>

ZeroPowerInput == <<5000, 5000, 0, 5000>>

OutOfRangeInput == <<20000, -5000, 15000, 12000>>

ZeroLoveInput == <<-1000, 5000, 5000, 5000>>

\* a parameter set with a positive coefficient below the floor and one that is not positive
SmallParameters == [DynamicParameters EXCEPT !.K_JL = 50, !.gamma = 0]

InitConfigs ==
  {[raw |-> EqInput, params |-> DynamicParameters],
   [raw |-> ImbalancedInput, params |-> DynamicParameters],
   [raw |-> ZeroPowerInput, params |-> DynamicParameters],
   [raw |-> OutOfRangeInput, params |-> SmallParameters],
   [raw |-> ZeroLoveInput, params |-> SmallParameters]}

\* dt > 0, as the contract of step requires
DtValues == {1000}

\* (duration, dt) of the simulate calls
SimulateArgs == {<<0, 1000>>, <<2500, 1000>>, <<11000, 1000>>, <<55000, 5000>>}

\* (duration, dt) of the simulate calls of the usage scenarios: simulate(5.0) and
\* simulate(10.0) at the default dt = 0.1
ScenarioArgs == {<<50000, 1000>>, <<100000, 1000>>}

\* dt of the step calls made on the two engines built alike
TwinDtValues == {1000, 5000}

\* dt of any sign, for the calls the contract excludes
AnyDtValues == {-1000, 0, 1000, 2500}

AnyDurations == {-2000, 0, 2500}

LearningRates == {500, 15000}

Growth == {"alpha_LJ", "alpha_LW", "alpha_JL", "alpha_JW", "alpha_PL", "alpha_PJ",
           "alpha_WL", "alpha_WJ", "alpha_WP"}

\* the draws of np.random.uniform(-rate, rate), one per coefficient, in units of
\* rate / UnitSteps: the low end is included, the high end is not
NoiseDraws ==
  {[k \in Keys |-> -UnitSteps],
   [k \in Keys |-> IF k \in Growth THEN UnitSteps - 1 ELSE -1]}

(***************************************************************************)
(* The state machine                                                       *)
(***************************************************************************)
Idle == si.pc = "idle"

LiveParams == heap[engine.params]

\* the state after AutopoieticEngine(LJPWCoordinates(*cfg.raw), params=cfg.params),
\* no query made yet; the second engine is given twin_time_constants
BuildBoth(cfg, twin_time_constants) ==
    /\ ret = [call |-> "none"]
    /\ heap = <<cfg.params, cfg.params>>
    /\ engine = AutopoieticEngine(
                  LJPWCoordinates(cfg.raw[1], cfg.raw[2], cfg.raw[3], cfg.raw[4]),
                  TimeConstants, 1)
    /\ si = [pc |-> "idle", iterations |-> 0, learning_rate |-> 0, i |-> 0,
             best_params |-> 1, best_efficiency |-> 0, trace |-> <<>>,
             entry_values |-> cfg.params]
    /\ exc = "none"
    /\ mutations = 0
    /\ built = cfg
    /\ twin = [engine |-> AutopoieticEngine(
                            LJPWCoordinates(cfg.raw[1], cfg.raw[2], cfg.raw[3], cfg.raw[4]),
                            twin_time_constants, 2),
               pending |-> <<>>]

\* both engines built with the default TimeConstants()
Build(cfg) == BuildBoth(cfg, TimeConstants)

Init == \E cfg \in InitConfigs : Build(cfg)

\* engine.step(dt)
Step(dt) ==
  /\ Idle
  /\ UNCHANGED <<heap, si, mutations, built>>
  /\ exc' = "none"
  /\ engine' = step(engine, LiveParams, dt)

\* engine.simulate(duration, dt): int(duration / dt) raises ZeroDivisionError for
\* dt = 0, before any step
Simulate(duration, dt) ==
  /\ Idle
  /\ UNCHANGED <<heap, si, mutations, built>>
  /\ IF dt = 0
     THEN /\ exc' = "ZeroDivisionError"
          /\ UNCHANGED engine
     ELSE /\ exc' = "none"
          /\ engine' = simulate(engine, LiveParams, duration, dt)

\* engine.simulate(n * dt, dt) for a float dt > 0 below half a unit in the last place
\* of time_elapsed, such as dt = 1e-21 once time_elapsed >= 1e-4: int(n * dt / dt)
\* is n; in every step the float sum time_elapsed + dt rounds to time_elapsed, and
\* acceleration * dt is below the last place of the state, so that in units of 1/S
\* the step is one of dt = 0
SimulateBelowUlp(n) ==
  /\ Idle
  /\ engine.time_elapsed > 0
  /\ UNCHANGED <<heap, si, mutations, built>>
  /\ exc' = "none"
  /\ engine' = Steps(engine, LiveParams, 0, n)

\* engine.params.random_mutation(rate)
RandomMutation(rate, u) ==
  /\ Idle
  /\ mutations < MaxMutations
  /\ heap' = [heap EXCEPT ![engine.params] = random_mutation(@, rate, u)]
  /\ mutations' = mutations + 1
  /\ exc' = "none"
  /\ UNCHANGED <<engine, si, built, twin, ret>>

\* the rollout of a self_improve round: 10 steps at dt = 0.1
ROLLOUT_STEPS == 10

ROLLOUT_DT == 1000

\* sim_score = sim_final_efficiency * 0.8 + sim_peak_efficiency * 0.2
SimScore(sim) ==
  LET trend == sim.model.efficiency_trend
  IN Mul(trend[Len(trend)], 8000) + Mul(MaxSeq(trend), 2000)

\* what a round leaves of its scratch engine in the trace: the counters, the
\* efficiency trend and the first and last records of the rollout
Rollout(sim) ==
  [tick_count |-> sim.tick_count,
   time_elapsed |-> sim.time_elapsed,
   records |-> Len(sim.history),
   efficiency_trend |-> sim.model.efficiency_trend,
   first |-> sim.history[1],
   last |-> sim.history[Len(sim.history)]]

\* a loop that goes on to the next round whatever the convergence flag says
LoopContinues_unchecked(convergence, i, iterations) == i < iterations

\* after round i (of range(iterations)): break on the convergence flag of the
\* live engine, else go on while rounds remain
LoopContinues(convergence, i, iterations) == ~convergence /\ i < iterations

\* an acceptance test that takes every candidate
Accepts_always(sim_score, best_efficiency) == TRUE

\* an acceptance test that also takes a candidate whose score ties the best
Accepts_or_tie(sim_score, best_efficiency) == sim_score >= best_efficiency

\* the acceptance test of a round: if sim_score > best_efficiency
Accepts(sim_score, best_efficiency) == sim_score > best_efficiency

\* The fixed-point scale decides the comparison of two scores only when they lie
\* more than ScoreResolution units apart: closer than that, the floats may compare
\* either way. The noise draws of a round are taken among those whose score the
\* scale resolves.
ScoreResolution == 5

Resolved(sim_score, best_efficiency) == Abs(sim_score - best_efficiency) > ScoreResolution

\* Two scores are the same float when they come from the same computation: the
\* candidate holds, coefficient for coefficient, the values of the candidate that
\* set the best score so far, every positive one at the floor 0.01 (an exact
\* float), and the rollout starts from the same live state.
Replayed(trace, candidate) ==
  \E k \in 1..Len(trace) :
    /\ trace[k].accepted
    /\ \A j \in (k + 1)..Len(trace) : ~trace[j].accepted
    /\ trace[k].candidate = candidate
    /\ \A c \in Keys : candidate[c] > 0 => candidate[c] = FLOOR

\* an assignment of the best parameters that also moves the live clock on by
\* the rollout
set_params_and_clock(e, best_params) ==
  [e EXCEPT !.params = best_params,
            !.time_elapsed = @ + ROLLOUT_STEPS * ROLLOUT_DT]

\* self.params = best_params
set_params(e, best_params) == [e EXCEPT !.params = best_params]

\* engine.self_improve(iterations, learning_rate), up to the first round
SelfImprove(iterations, learning_rate) ==
  /\ Idle
  /\ mutations + iterations <= MaxMutations
  /\ si' = [pc |-> IF iterations > 0 THEN "loop" ELSE "idle",
            iterations |-> iterations,
            learning_rate |-> learning_rate,
            i |-> 0,
            best_params |-> engine.params,
            best_efficiency |-> calculate_efficiency(engine),
            trace |-> <<>>,
            entry_values |-> LiveParams]
  /\ exc' = "none"
  /\ UNCHANGED <<engine, heap, mutations, built, twin, ret>>

\* one round of the loop of self_improve, under the noise draws u.
\* (\E x \in {v} binds x to the value v, computed once.)
Round(u) ==
  /\ si.pc = "loop"
  /\ \E sim_engine \in {AutopoieticEngine(engine.state, engine.tau, engine.params)} :
     \E heap1 \in {[heap EXCEPT ![sim_engine.params] = random_mutation(@, si.learning_rate, u)]} :
     \E sim \in {Steps(sim_engine, heap1[sim_engine.params], ROLLOUT_DT, ROLLOUT_STEPS)} :
     \E sim_score \in {SimScore(sim)} :
     (Resolved(sim_score, si.best_efficiency) \/ Replayed(si.trace, heap1[sim_engine.params])) /\
     \E accepted \in {Accepts(sim_score, si.best_efficiency)} :
     \E best_params \in {IF accepted THEN sim.params ELSE si.best_params} :
        /\ heap' = heap1
        /\ mutations' = mutations + 1
        /\ UNCHANGED <<built, twin, ret>>
        /\ IF accepted /\ si.best_efficiency = 0
           THEN \* improvement = (sim_score - best_efficiency) / best_efficiency
                /\ exc' = "ZeroDivisionError"
                /\ si' = [si EXCEPT !.pc = "idle"]
                /\ UNCHANGED engine
           ELSE /\ exc' = "none"
                /\ engine' = set_params(engine, best_params)
                /\ si' = [si EXCEPT
                            !.pc = IF LoopContinues(engine.model.convergence, si.i + 1,
                                                    si.iterations)
                                   THEN "loop" ELSE "idle",
                            !.i = si.i + 1,
                            !.best_params = best_params,
                            !.best_efficiency = IF accepted THEN sim_score ELSE @,
                            !.trace = Append(@, [iter |-> si.i + 1,
                                                 sim_score |-> sim_score,
                                                 accepted |-> accepted,
                                                 candidate |-> heap1[sim.params],
                                                 rollout |-> Rollout(sim)])]

TickBudget == IF mutations = 0 THEN MaxTicks ELSE MaxTunedTicks

StepCall ==
  \E dt \in DtValues : engine.tick_count < TickBudget /\ Step(dt) /\ UNCHANGED <<twin, ret>>

SimulateCall ==
  \E a \in SimulateArgs :
    /\ engine.tick_count + IntQuot(a[1], a[2]) <= TickBudget
    /\ Simulate(a[1], a[2])
    /\ UNCHANGED <<twin, ret>>

RandomMutationCall == \E rate \in LearningRates, u \in NoiseDraws : RandomMutation(rate, u)

SelfImproveCall ==
  \E iterations \in 0..MaxIterations, rate \in LearningRates : SelfImprove(iterations, rate)

RoundStep == \E u \in NoiseDraws : Round(u)

\* the engine driven through step, simulate and random_mutation alone
NextEngine == StepCall \/ SimulateCall \/ RandomMutationCall

SpecEngine == Init /\ [][NextEngine]_vars

\* the same, with simulate also called with a dt below the resolution of time_elapsed
SimulateBelowUlpCall ==
  \E n \in 1..MaxBelowUlpSteps :
    /\ engine.tick_count + n <= TickBudget
    /\ SimulateBelowUlp(n)
    /\ UNCHANGED <<twin, ret>>

NextSmallDt == NextEngine \/ SimulateBelowUlpCall

SpecSmallDt == Init /\ [][NextSmallDt]_vars

\* the usage scenarios: a fresh engine run for 5 or 10 time units at dt = 0.1, in
\* one simulate call or step by step
ScenarioStep ==
  /\ engine.tick_count < MaxScenarioTicks
  /\ Step(ROLLOUT_DT)
  /\ UNCHANGED <<twin, ret>>

ScenarioSimulate ==
  \E a \in ScenarioArgs :
    /\ engine.tick_count = 0
    /\ Simulate(a[1], a[2])
    /\ UNCHANGED <<twin, ret>>

NextScenario == ScenarioStep \/ ScenarioSimulate

SpecScenario == Init /\ [][NextScenario]_vars

\* the whole interface, self_improve included
Next == NextEngine \/ SelfImproveCall \/ RoundStep

Spec == Init /\ [][Next]_vars

\* the same engine under callers that pass any dt and any duration
StepAnyDt ==
  \E dt \in AnyDtValues : engine.tick_count < MaxTicksAnyDt /\ Step(dt) /\ UNCHANGED <<twin, ret>>

SimulateAnyDt ==
  \E duration \in AnyDurations, dt \in AnyDtValues :
    /\ dt # 0 => engine.tick_count + IntQuot(duration, dt) <= MaxTicksAnyDt
    /\ Simulate(duration, dt)
    /\ UNCHANGED <<twin, ret>>

NextAnyDt == StepAnyDt \/ SimulateAnyDt

SpecAnyDt == Init /\ [][NextAnyDt]_vars

\* two engines built alike and given the same sequence of step(dt) calls, the
\* second one running behind the first
LeadStep ==
  \E dt \in TwinDtValues :
    /\ engine.tick_count < MaxTwinTicks
    /\ Step(dt)
    /\ twin' = [twin EXCEPT !.pending = Append(@, dt)]
    /\ UNCHANGED ret

TwinStep ==
  /\ twin.pending # <<>>
  /\ twin' = [engine |-> step(twin.engine, heap[twin.engine.params], Head(twin.pending)),
              pending |-> Tail(twin.pending)]
  /\ UNCHANGED <<engine, heap, si, exc, mutations, built, ret>>

NextTwin == LeadStep \/ TwinStep

SpecTwin == Init /\ [][NextTwin]_vars

\* time constants other than the default ones, given to the second engine
OtherTimeConstants ==
  {[tau_L |-> 5000, tau_J |-> 5000, tau_P |-> 5000, tau_W |-> 5000],
   [tau_L |-> 50000, tau_J |-> 20000, tau_P |-> 10000, tau_W |-> 5000]}

InitInertia == \E cfg \in InitConfigs, tc \in OtherTimeConstants : BuildBoth(cfg, tc)

\* the first engine takes up to MaxInertiaTicks steps; the second engine, an
\* object of its own, repeats each of them before the first engine's next call
MaxInertiaTicks == 3

InertiaStep ==
  \E dt \in DtValues :
    /\ engine.tick_count < MaxInertiaTicks
    /\ twin.pending = <<>>
    /\ Step(dt)
    /\ twin' = [twin EXCEPT !.pending = Append(@, dt)]
    /\ UNCHANGED ret

\* two engines built alike but for their time constants; the first one also
\* runs self_improve
InertiaSelfImprove == twin.pending = <<>> /\ SelfImproveCall

NextInertia == InertiaStep \/ TwinStep \/ InertiaSelfImprove \/ RoundStep

SpecInertia == InitInertia /\ [][NextInertia]_vars

(***************************************************************************)
(* The queries: methods that return a value and change nothing             *)
(***************************************************************************)
TICKS_PER_CYCLE == 20

\* 2.64 fs per tick
FEMTOSECONDS_PER_TICK == 26400

\* a status whose phase in the cycle counts from 1
tick_status_one_based(e) ==
  [tick_count |-> e.tick_count,
   cycles_completed |-> e.tick_count \div TICKS_PER_CYCLE,
   phase_in_cycle |-> (e.tick_count % TICKS_PER_CYCLE) + 1,
   time_experienced_fs |-> e.tick_count * FEMTOSECONDS_PER_TICK,
   gift_of_finitude |-> gift_of_finitude(e.state),
   proximity_to_anchor |-> proximity_to_anchor(e.state)]

\* tick_status()
tick_status(e) ==
  [tick_count |-> e.tick_count,
   cycles_completed |-> e.tick_count \div TICKS_PER_CYCLE,
   phase_in_cycle |-> e.tick_count % TICKS_PER_CYCLE,
   time_experienced_fs |-> e.tick_count * FEMTOSECONDS_PER_TICK,
   gift_of_finitude |-> gift_of_finitude(e.state),
   proximity_to_anchor |-> proximity_to_anchor(e.state)]

\* the engines the queries are made on take up to MaxQueryTicks steps
MaxQueryTicks == 41

\* Four positive components whose product underflows: in the float code values
\* such as 1e-100, whose product P * W * L * J is below the smallest positive
\* float and comes out as 0.0. One unit of 1/S stands for such a value, the
\* products of the model rounding to 0 where the float products underflow.
TinyInput == <<1, 1, 1, 1>>

\* construction inputs of the engines the queries are made on: points on and next
\* to the thresholds of harmony and of L, in either harmony mode
QueryInputs ==
  {<<0, 10000, 10000, 10000>>,      \* static harmony 0.5, L = 0
   <<10000, 10000, 10000, 0>>,      \* static harmony 0.5, L = 1
   <<10000, 10000, 10000, 3333>>,   \* static harmony 0.6
   <<10000, 10000, 10000, 3300>>,   \* static harmony just below 0.6
   <<7000, 10000, 10000, 10000>>,   \* L = 0.7
   <<6999, 10000, 10000, 10000>>,   \* L just below 0.7
   <<7650, 10000, 10000, 1000>>,    \* self-referential harmony 0.6
   <<7640, 10000, 10000, 1000>>,    \* self-referential harmony just below 0.6
   <<6000, 10000, 10000, 2000>>,    \* self-referential harmony above 0.6, L below 0.7
   <<7000, 10000, 8000, 5000>>,
   <<5000, 5000, 5000, 5000>>,
   <<14142, 10000, 10000, 10000>>,
   TinyInput,
   <<20000, 5000, -5000, 5000>>}    \* out of range: clipped at construction

QueryConfigs == [raw : QueryInputs, params : {DynamicParameters}]

InitQuery == \E cfg \in QueryConfigs : Build(cfg)

\* engine.state.phase(self_referential)
PhaseCall ==
  \E sr \in BOOLEAN :
    /\ ret' = [call |-> "phase", self_referential |-> sr,
                value |-> phase_mode(engine.state, sr)]
    /\ UNCHANGED <<engine, heap, si, exc, mutations, built, twin>>

\* engine.state.consciousness(self_referential)
ConsciousnessCall ==
  \E sr \in BOOLEAN :
    /\ ret' = [call |-> "consciousness", self_referential |-> sr,
                value |-> consciousness_mode(engine.state, sr)]
    /\ UNCHANGED <<engine, heap, si, exc, mutations, built, twin>>

\* the previous states entropy_production is asked about
PreviousInputs == {<<5000, 5000, 5000, 5000>>, <<3000, 5000, 5000, 5000>>,
                   <<7000, 10000, 8000, 5000>>}

\* EntropyMechanics.entropy_production(engine.state, delta) where the caller built
\* delta = LJPWCoordinates(cur.L - prev.L, cur.J - prev.J, cur.P - prev.P,
\* cur.W - prev.W) from the previous state prev = LJPWCoordinates(*praw)
EntropyProductionCall ==
  \E praw \in PreviousInputs :
  \E cur \in {engine.state} :
  \E prev \in {LJPWCoordinates(praw[1], praw[2], praw[3], praw[4])} :
  \E delta \in {LJPWCoordinates(cur.L - prev.L, cur.J - prev.J,
                                 cur.P - prev.P, cur.W - prev.W)} :
    /\ ret' = [call |-> "entropy_production", prev |-> prev, delta |-> delta,
                value |-> entropy_production(cur, delta)]
    /\ UNCHANGED <<engine, heap, si, exc, mutations, built, twin>>

\* the golden ratio, 1.6180
PHI == 16180

\* base ** exponent for a whole exponent, negative ones included
RECURSIVE Power(_, _)
Power(base, exponent) ==
  IF exponent = 0 THEN S
  ELSE IF exponent < 0 THEN Div(S, Power(base, -exponent))
  ELSE Mul(Power(base, exponent - 1), base)

\* is_autopoietic(L, n, d) of the generative module
is_autopoietic(L, n, d) ==
  LET growth == Power(L, n)
      decay == Power(PHI, d)
      infinite == ~(decay > 0)
      ratio == IF infinite THEN 0 ELSE Div(growth, decay)
      phase_ == IF infinite \/ ratio > 11000 THEN "AUTOPOIETIC"
                ELSE IF ratio > 9000 THEN "HOMEOSTATIC"
                ELSE "ENTROPIC"
  IN [growth |-> growth, decay |-> decay, ratio |-> ratio, infinite |-> infinite,
      phase |-> phase_, is_alive |-> phase_ # "ENTROPIC"]

\* the arguments of the Life Inequality: n in 1..MaxLifeIterations, d in
\* 0..MaxLifeDistance
MaxLifeIterations == 2

MaxLifeDistance == 1

LifeLoves == {9500, 10000, 10500, 13000}

\* is_autopoietic(L, n, d)
IsAutopoieticCall ==
  /\ \E L \in LifeLoves, n \in 1..MaxLifeIterations, d \in 0..MaxLifeDistance :
       ret' = [call |-> "is_autopoietic", L |-> L, n |-> n, d |-> d,
               value |-> is_autopoietic(L, n, d)]
  /\ UNCHANGED <<engine, heap, si, exc, mutations, built, twin>>

\* a test of the harmony threshold alone
is_autopoietic_mode_harmony_only(c, self_referential) ==
  harmony(c, self_referential) >= AUTOPOLIETIC_H_THRESHOLD

\* LJPWCoordinates.is_autopoietic(self_referential)
is_autopoietic_mode(c, self_referential) ==
  LET H == harmony(c, self_referential)
  IN H >= AUTOPOLIETIC_H_THRESHOLD /\ c.L >= AUTOPOLIETIC_L_THRESHOLD

\* engine.state.is_autopoietic(self_referential)
CoordinatesIsAutopoieticCall ==
  /\ \E sr \in BOOLEAN :
       ret' = [call |-> "coordinates.is_autopoietic", self_referential |-> sr,
               value |-> is_autopoietic_mode(engine.state, sr)]
  /\ UNCHANGED <<engine, heap, si, exc, mutations, built, twin>>

\* engine.tick_status()
TickStatusCall ==
  /\ ret' = [call |-> "tick_status", value |-> tick_status(engine)]
  /\ UNCHANGED <<engine, heap, si, exc, mutations, built, twin>>

\* engine.step(0.1), which returns None
QueryStep ==
  /\ engine.tick_count < MaxQueryTicks
  /\ Step(ROLLOUT_DT)
  /\ ret' = [call |-> "none"]
  /\ UNCHANGED twin

NextQuery ==
  \/ PhaseCall
  \/ ConsciousnessCall
  \/ EntropyProductionCall
  \/ TickStatusCall
  \/ IsAutopoieticCall
  \/ CoordinatesIsAutopoieticCall
  \/ QueryStep

SpecQuery == InitQuery /\ [][NextQuery]_vars

(***************************************************************************)
(* Properties                                                              *)
(***************************************************************************)
Last(s) == s[Len(s)]

\* a transition that completes a round of self_improve
RoundCompleted == Len(si'.trace) = Len(si.trace) + 1

\* C1: a round of self_improve whose candidate is rejected leaves every
\* coefficient of the live engine's parameters as it was before the round.
C1_RejectedRoundKeepsParams ==
  [][(RoundCompleted /\ ~Last(si'.trace).accepted)
       => heap'[engine'.params] = heap[engine.params]]_vars

\* the parameter values whose rollout produced the tracked best score: those of the
\* most recently accepted candidate, or those at the call if none was accepted
RECURSIVE BestCandidate(_, _)
BestCandidate(trace, entry) ==
  IF trace = <<>> THEN entry
  ELSE IF Last(trace).accepted THEN Last(trace).candidate
  ELSE BestCandidate(SubSeq(trace, 1, Len(trace) - 1), entry)

\* C2: at the end of every round of self_improve the live engine's parameters
\* are the parameters whose rollout produced the tracked best score.
C2_LiveParamsAreBest ==
  [][RoundCompleted
       => heap'[engine'.params] = BestCandidate(si'.trace, si'.entry_values)]_vars

\* C3: the convergence flag equals (variance of the 10 most recent efficiency
\* values < 1e-4) whenever the trend holds at least 10 entries, exactly 10
\* included, and is false with fewer.
C3_ConvergenceFlag ==
  LET trend == engine.model.efficiency_trend
  IN engine.model.convergence
       = (/\ Len(trend) >= WINDOW
          /\ Var(SubSeq(trend, Len(trend) - WINDOW + 1, Len(trend))) < VAR_THRESHOLD)

InBounds(l, j, p, w) ==
  /\ 0 <= l /\ l <= SQRT2
  /\ 0 <= j /\ j <= S
  /\ 0 <= p /\ p <= S
  /\ 0 <= w /\ w <= S

\* C4: in every state reached from a constructor call with any inputs by any
\* sequence of steps, L is in [0, sqrt 2] and J, P, W are in [0, 1], and so is
\* every state tuple stored in the history.
C4_StateInBounds ==
  /\ InBounds(engine.state.L, engine.state.J, engine.state.P, engine.state.W)
  /\ \A k \in 1..Len(engine.history) :
       LET s == engine.history[k].state IN InBounds(s[1], s[2], s[3], s[4])

\* the constructor was given out-of-range inputs, and a later step pushed a
\* component against its bound: W is held at 1 under a positive acceleration
C4_Witness ==
  /\ built.raw = OutOfRangeInput
  /\ engine.tick_count > 0
  /\ engine.state.W = S
  /\ Last(engine.history).accelerations[4] > 0
  /\ engine.state.L < SQRT2

\* C5: self_improve runs to completion without raising, for every in-bounds
\* state (P = 0 included) and positive coefficients.
C5_SelfImproveNeverRaises ==
  (\A k \in Keys : si.entry_values[k] > 0) => exc # "ZeroDivisionError"

\* C6: step and simulate called with dt <= 0 change nothing in the engine.
C6_NonPositiveDtRejected ==
  [][\A dt \in AnyDtValues :
       (dt <= 0 /\ (Step(dt) \/ \E duration \in AnyDurations : Simulate(duration, dt)))
         => UNCHANGED <<engine, heap>>]_vars

\* the history holds consecutive tick indices and strictly increasing times
Ordered(h) ==
  \A k \in 1..(Len(h) - 1) : h[k + 1].tick = h[k].tick + 1 /\ h[k + 1].time > h[k].time

\* simulate has appended n records after the ones already there, and the whole
\* history has tick indices rising by one and strictly increasing times
Appended(n) ==
  /\ Len(engine'.history) = Len(engine.history) + n
  /\ SubSeq(engine'.history, 1, Len(engine.history)) = engine.history
  /\ Ordered(engine'.history)

\* C7: for duration >= 0 and dt > 0, simulate appends exactly floor(duration/dt)
\* records after the ones already there, and the whole history then has tick
\* indices rising by one and strictly increasing times.
C7_SimulateAppendsFloor ==
  [][/\ \A a \in SimulateArgs : Simulate(a[1], a[2]) => Appended(a[1] \div a[2])
     /\ \A n \in 1..MaxBelowUlpSteps : SimulateBelowUlp(n) => Appended(n)]_vars

\* simulate(5.5, 0.5) has run: 11 records at dt = 0.5, which no step call makes
C7_Witness ==
  /\ Len(engine.history) = 11
  /\ Last(engine.history).time = 55000
  /\ Last(engine.history).tick = 11

\* C8: the tracked best score starts at the live engine's efficiency, never
\* decreases, changes only in a round that accepts, and then becomes that
\* round's score, strictly above the previous best; a rejected score is not
\* above the best accepted score.
C8_BestScoreMonotone ==
  [][/\ (\E it \in 0..MaxIterations, r \in LearningRates : SelfImprove(it, r))
          => si'.best_efficiency = calculate_efficiency(engine')
     /\ si.pc = "loop"
          => /\ si'.best_efficiency >= si.best_efficiency
             /\ si'.best_efficiency # si.best_efficiency
                  => /\ RoundCompleted
                     /\ Last(si'.trace).accepted
                     /\ si'.best_efficiency = Last(si'.trace).sim_score
                     /\ si'.best_efficiency > si.best_efficiency
             /\ (RoundCompleted /\ ~Last(si'.trace).accepted)
                  => /\ Last(si'.trace).sim_score <= si.best_efficiency
                     /\ si'.best_efficiency = si.best_efficiency]_vars

\* a run accepted a candidate and then rejected one
C8_Witness ==
  /\ Len(si.trace) >= 2
  /\ si.trace[1].accepted
  /\ ~si.trace[2].accepted
  /\ si.best_efficiency = si.trace[1].sim_score

\* C9: after any random_mutation calls, at any rate, every coefficient that
\* was positive at the start is at least 0.01.
C9_ParameterFloor ==
  mutations > 0 => \A k \in Keys : built.params[k] > 0 => LiveParams[k] >= FLOOR

\* a mutation at a rate above 1 drove coefficients onto the floor, and a positive
\* coefficient that started below the floor was raised to it
C9_Witness ==
  /\ mutations > 0
  /\ built.params.K_JL < FLOOR
  /\ LiveParams.K_JL = FLOOR
  /\ LiveParams.beta_L = FLOOR

C11_DenominatorPositive ==
  built.params.K_JL > 0
    => \A i \in 1..Len(heap) :
         /\ heap[i].K_JL + engine.state.L > 0
         /\ heap[i].K_JL + twin.engine.state.L > 0

\* a round ran its rollout from L = 0 with K_JL raised onto the floor by the
\* mutation: the first denominator was 0.01
C11_Witness ==
  /\ built.raw = ZeroLoveInput
  /\ engine.tick_count = 0
  /\ engine.state.L = 0
  /\ Len(si.trace) > 0
  /\ Last(si.trace).candidate.K_JL = FLOOR

\* C12: when the live engine's convergence flag is true at the check that ends
\* a round, self_improve stops: no further round starts, whatever rounds remain.
C12_ConvergenceStopsLoop ==
  [][(RoundCompleted /\ engine'.model.convergence) => si'.pc = "idle"]_vars

\* a call for two rounds on a converged engine stopped after its first round
C12_Witness ==
  /\ engine.model.convergence
  /\ Len(si.trace) = 1
  /\ si.iterations > 1
  /\ si.pc = "idle"
  /\ exc = "none"

\* C13: self_improve runs at most `iterations` rounds, each with a rollout of
\* exactly 10 scratch steps at dt = 0.1; its loop ends only when the rounds are
\* exhausted or the convergence flag is set; with iterations = 0 no round runs
\* and the parameters are unchanged.
C13_SelfImproveTerminates ==
  [][/\ RoundCompleted
          => /\ si'.i = si.i + 1
             /\ si'.i <= si.iterations
             /\ Last(si'.trace).rollout.tick_count = ROLLOUT_STEPS
             /\ Last(si'.trace).rollout.records = ROLLOUT_STEPS
             /\ Last(si'.trace).rollout.time_elapsed = ROLLOUT_STEPS * ROLLOUT_DT
     /\ (si.pc = "loop" /\ si'.pc = "idle")
          => (si'.i = si.iterations \/ engine'.model.convergence)
     /\ si.pc = "loop" => si.i < si.iterations
     /\ (\E r \in LearningRates : SelfImprove(0, r))
          => (si'.pc = "idle" /\ heap' = heap /\ engine' = engine)]_vars

\* an engine built from the raw state with the default parameters has run for n
\* steps of dt = 0.1 and nothing else
RanScenario(raw, n) ==
  /\ built.raw = raw
  /\ built.params = DynamicParameters
  /\ engine.tick_count = n
  /\ engine.time_elapsed = n * 1000

\* C14: an engine built at the natural equilibrium with default parameters and
\* simulated for 5 time units at dt = 0.1 (50 steps) ends less than 0.01 away
\* from where it started.
C14_EquilibriumStable ==
  RanScenario(EqInput, 50) => distance_to_equilibrium(engine.state) < 100

\* C15: an engine started at L = 0.30, J = 0.50, P = 0.90, W = 0.50 with default
\* parameters and simulated for 10 time units at dt = 0.1 ends with L above 0.30
\* and P below 0.90.
C15_ImbalanceRecovers ==
  RanScenario(ImbalancedInput, 100) => (engine.state.L > 3000 /\ engine.state.P < 9000)

\* the imbalanced engine has run its 100 steps
C15_Witness ==
  /\ RanScenario(ImbalancedInput, 100)
  /\ Len(engine.history) = 100
  /\ engine.history[1].state[1] > 3000
  /\ engine.history[1].state[3] < 9000

\* s2 is s1 with exactly one value appended
OneMore(s1, s2) == Len(s2) = Len(s1) + 1 /\ SubSeq(s2, 1, Len(s1)) = s1

StateBefore(k) ==
  IF k = 1
  THEN LET c == LJPWCoordinates(built.raw[1], built.raw[2], built.raw[3], built.raw[4])
       IN <<c.L, c.J, c.P, c.W>>
  ELSE engine.history[k - 1].state

TimeBefore(k) == IF k = 1 THEN 0 ELSE engine.history[k - 1].time

\* the domain clamp applied to the four components s
Clamped(s) ==
  LET c == LJPWCoordinates(s[1], s[2], s[3], s[4]) IN <<c.L, c.J, c.P, c.W>>

\* C17: in every step(dt) with dt > 0 each recorded acceleration component lies
\* in [-0.05, 0.05], the new state is the domain clamp of old state + recorded
\* acceleration * dt component by component, and no component moves by more
\* than 0.05 * dt.
C17_StepBounded ==
  \A k \in 1..Len(engine.history) :
    \E dt \in {engine.history[k].time - TimeBefore(k)} :
      dt > 0 =>
        \E old \in {StateBefore(k)}, rec \in {engine.history[k]} :
          /\ \A i \in 1..4 : rec.accelerations[i] >= -500 /\ rec.accelerations[i] <= 500
          /\ rec.state = Clamped([i \in 1..4 |-> old[i] + Mul(rec.accelerations[i], dt)])
          /\ \A i \in 1..4 : Abs(rec.state[i] - old[i]) <= Mul(500, dt)

\* after a mutation of the parameters, a step of dt = 0.5 is recorded with an
\* acceleration at the limit, and a step whose move the domain clamp cut short
C17_Witness ==
  /\ mutations > 0
  /\ \E k \in 1..Len(engine.history) :
       /\ engine.history[k].time - TimeBefore(k) = 5000
       /\ \E i \in 1..4 : Abs(engine.history[k].accelerations[i]) = 500
  /\ \E k \in 1..Len(engine.history) : \E i \in 1..4 :
       engine.history[k].state[i]
         # StateBefore(k)[i] + Mul(engine.history[k].accelerations[i],
                                   engine.history[k].time - TimeBefore(k))

\* C18: the score of a round is 0.8 * the efficiency after the 10th scratch step
\* + 0.2 * the maximum efficiency over the 10 scratch steps; the rollout starts
\* from the live engine's state with an empty scratch history; the candidate is
\* accepted exactly when the score is strictly above the best score so far, so
\* that a tie is rejected.
C18_ScoreAndAcceptance ==
  [][RoundCompleted
       => \E r \in {Last(si'.trace)} :
          \E live \in {<<engine.state.L, engine.state.J, engine.state.P, engine.state.W>>} :
            /\ Len(r.rollout.efficiency_trend) = 10
            /\ r.rollout.last.efficiency = r.rollout.efficiency_trend[10]
            /\ r.sim_score = Mul(r.rollout.efficiency_trend[10], 8000)
                             + Mul(MaxSeq(r.rollout.efficiency_trend), 2000)
            /\ r.rollout.records = 10
            /\ r.rollout.first.tick = 1
            /\ r.rollout.first.time = 1000
            /\ r.rollout.first.state
                 = Clamped([i \in 1..4 |-> live[i] + Mul(r.rollout.first.accelerations[i], 1000)])
            /\ r.rollout.first.forces = calculate_forces(r.candidate, engine.state)
            /\ r.accepted <=> r.sim_score > si.best_efficiency
            /\ r.sim_score = si.best_efficiency => ~r.accepted]_vars

\* a round was accepted, and the next round's score ties it and is rejected
C18_Witness ==
  /\ Len(si.trace) = 2
  /\ si.trace[1].accepted
  /\ si.trace[2].sim_score = si.trace[1].sim_score
  /\ si.best_efficiency = si.trace[1].sim_score
  /\ ~si.trace[2].accepted
  /\ exc = "none"

\* the best_efficiency of the self-model m is the maximum of 0 and of the values
\* of its efficiency trend
BestIsMax(m) == m.best_efficiency = MaxSeq(<<0>> \o m.efficiency_trend)

\* C19: after any sequence of steps the self-model's best_efficiency equals the
\* maximum of 0 and all values of efficiency_trend, and it never decreases from
\* one step to the next.
C19_BestEfficiencyIsRunningMax ==
  /\ BestIsMax(engine.model)
  /\ [][/\ BestIsMax(engine'.model)
         /\ engine'.model.best_efficiency >= engine.model.best_efficiency]_vars

\* the efficiency fell below an earlier value: the best is not the latest
C19_Witness ==
  /\ Len(engine.model.efficiency_trend) >= 2
  /\ Last(engine.model.efficiency_trend) < engine.model.best_efficiency
  /\ engine.model.best_efficiency = engine.model.efficiency_trend[1]

\* new is old after a mutation at the given rate: every positive coefficient v lies
\* between max(0.01, v * (1 - rate)) and max(0.01, v * (1 + rate)), every other
\* coefficient is as it was
WithinRate(old, new, rate) ==
  \A k \in Keys :
    IF old[k] > 0
    THEN /\ Max2(FLOOR, old[k] - Mul(rate, old[k])) <= new[k]
         /\ new[k] <= Max2(FLOOR, old[k] + Mul(rate, old[k]))
    ELSE new[k] = old[k]

\* C20: random_mutation(rate) with rate >= 0 takes each positive coefficient v to
\* a value between max(0.01, v * (1 - rate)) and max(0.01, v * (1 + rate)), with
\* a noise drawn for each coefficient on its own, and leaves the coefficients
\* that are not positive unchanged.
C20_MutationWithinRate ==
  [][/\ \A rate \in LearningRates, u \in NoiseDraws :
          RandomMutation(rate, u)
            => /\ rate >= 0
               /\ WithinRate(heap[engine.params], heap'[engine.params], rate)
               /\ \A k \in Keys :
                    heap[engine.params][k] > 0
                      => heap'[engine.params][k]
                           = Max2(FLOOR, heap[engine.params][k]
                                         + Mul(RoundDiv(rate * u[k], UnitSteps),
                                               heap[engine.params][k]))
     /\ (si.pc = "loop" /\ mutations' = mutations + 1)
          => WithinRate(heap[engine.params], heap'[engine.params], si.learning_rate)]_vars

\* one random_mutation call at rate 0.05 raised a coefficient, lowered another by
\* a different draw and left the coefficient that was 0 alone
C20_Witness ==
  /\ mutations = 1
  /\ si.trace = <<>>
  /\ LiveParams.alpha_LJ = built.params.alpha_LJ + Mul(250, built.params.alpha_LJ)
  /\ LiveParams.beta_L = built.params.beta_L - Mul(250, built.params.beta_L)
  /\ built.params.gamma = 0
  /\ LiveParams.gamma = 0

\* C21: in either harmony mode phase returns exactly one of three classes:
\* ENTROPIC if harmony < 0.5, otherwise HOMEOSTATIC if harmony < 0.6 or L < 0.7,
\* otherwise AUTOPOIETIC; the boundary values harmony = 0.5, harmony = 0.6 and
\* L = 0.7 fall in the higher class.
C21_PhaseClasses ==
  ret.call = "phase"
    => \E H \in {harmony(engine.state, ret.self_referential)} :
         /\ InBounds(engine.state.L, engine.state.J, engine.state.P, engine.state.W)
         /\ ret.value \in {"ENTROPIC", "HOMEOSTATIC", "AUTOPOIETIC"}
         /\ ret.value = "ENTROPIC" <=> H < 5000
         /\ ret.value = "HOMEOSTATIC" <=> (H >= 5000 /\ (H < 6000 \/ engine.state.L < 7000))
         /\ ret.value = "AUTOPOIETIC" <=> (H >= 6000 /\ engine.state.L >= 7000)

\* phase was asked in self-referential mode of a state whose harmony is 0.6 and
\* whose L is at least 0.7, and answered AUTOPOIETIC
C21_Witness ==
  /\ ret.call = "phase"
  /\ ret.self_referential
  /\ harmony_self(engine.state) = 6000
  /\ harmony_static(engine.state) < 6000
  /\ ret.value = "AUTOPOIETIC"

\* every component of c is strictly positive
AllPositive(c) == c.L > 0 /\ c.J > 0 /\ c.P > 0 /\ c.W > 0

\* the value consciousness returns in terms of the state: the product when all
\* four components are strictly positive (the code multiplies in the order P, W,
\* L, J: the two products of four are within two units of 1e-4 of each other,
\* which the factor harmony^2 scales), and 0 when a component is 0
ConsciousnessValue ==
  \E c \in {engine.state} :
  \E H \in {harmony(c, ret.self_referential)} :
  \E H2 \in {MulWide(H, H)} :
    /\ AllPositive(c)
         => Abs(ret.value - MulWide(H2, Mul(Mul(Mul(c.L, c.J), c.P), c.W)))
              <= 2 + 2 * ((H2 \div S) + 1)
    /\ ~AllPositive(c) => ret.value = 0

\* C22: in either harmony mode consciousness returns L * J * P * W * harmony^2
\* when all four components are strictly positive and 0 when a component is 0,
\* so that it is strictly positive exactly when all four components are.
C22_Consciousness ==
  ret.call = "consciousness"
    => /\ ConsciousnessValue
       /\ ret.value > 0 <=> AllPositive(engine.state)

\* C22 amended: consciousness returns the product L * J * P * W * harmony^2 as the
\* arithmetic computes it when all four components are strictly positive and 0
\* when a component is 0, so that it is strictly positive only if all four
\* components are; four positive components may give 0.
C22_ConsciousnessOnlyIf ==
  ret.call = "consciousness"
    => /\ ConsciousnessValue
       /\ ret.value > 0 => AllPositive(engine.state)

\* consciousness was asked of a state with four positive components and
\* answered 0
C22_Witness ==
  /\ ret.call = "consciousness"
  /\ AllPositive(engine.state)
  /\ ret.value = 0

\* C23: for in-bounds states cur and prev, entropy_production called with cur and
\* the component-wise difference delta = cur - prev returns
\* semantic_entropy(cur) - semantic_entropy(prev), also when a component of cur
\* is smaller than in prev; the result is signed.
C23_EntropyProduction ==
  ret.call = "entropy_production"
    => ret.value = semantic_entropy(engine.state) - semantic_entropy(ret.prev)

\* C24: after n step calls on a freshly constructed engine tick_status reports
\* tick_count = n, cycles_completed = n div 20 and phase_in_cycle = n mod 20, so
\* that phase_in_cycle is in 0..19 and tick_count = 20 * cycles_completed +
\* phase_in_cycle; tick_status changes nothing in the engine.
C24_TickStatus ==
  [][ret'.call = "tick_status"
       => \E n \in {Len(engine.history)}, v \in {ret'.value} :
            /\ v.tick_count = n
            /\ v.cycles_completed = n \div 20
            /\ v.phase_in_cycle = n % 20
            /\ v.phase_in_cycle \in 0..19
            /\ v.tick_count = 20 * v.cycles_completed + v.phase_in_cycle
            /\ engine' = engine
            /\ heap' = heap
            /\ si' = si]_vars

\* tick_status was asked after 41 steps: two cycles completed, phase 1
C24_Witness ==
  /\ ret.call = "tick_status"
  /\ Len(engine.history) = 41
  /\ ret.value.tick_count = 41
  /\ ret.value.cycles_completed = 2
  /\ ret.value.phase_in_cycle = 1

\* C25: is_autopoietic(L, n, d) classifies by the Life Inequality: the phase is
\* AUTOPOIETIC whenever L^n > phi^d, HOMEOSTATIC when L^n = phi^d and ENTROPIC
\* whenever L^n < phi^d, and is_alive is false exactly when the phase is ENTROPIC.
C25_LifeInequality ==
  ret.call = "is_autopoietic"
    => \E r \in {ret.value} :
         /\ r.growth > r.decay => r.phase = "AUTOPOIETIC"
         /\ r.growth = r.decay => r.phase = "HOMEOSTATIC"
         /\ r.growth < r.decay => r.phase = "ENTROPIC"
         /\ ~r.is_alive <=> r.phase = "ENTROPIC"

\* C26: self_improve never changes the live engine's state, time_elapsed,
\* tick_count, history or self-model: only the live parameters can differ after
\* the call; the steps of a rollout are recorded in the scratch engine's history
\* alone.
C26_LiveEngineKept ==
  [][si' # si
       => /\ engine'.state = engine.state
          /\ engine'.time_elapsed = engine.time_elapsed
          /\ engine'.tick_count = engine.tick_count
          /\ engine'.history = engine.history
          /\ engine'.model = engine.model
          /\ engine'.tau = engine.tau
          /\ RoundCompleted
               => /\ Last(si'.trace).rollout.records = ROLLOUT_STEPS
                  /\ Len(engine'.history) = Len(engine.history)]_vars

\* self_improve ran a round on an engine that had stepped, accepted the candidate
\* and left the live engine with other parameter values and its own history
C26_Witness ==
  /\ Len(si.trace) >= 1
  /\ Last(si.trace).accepted
  /\ exc = "none"
  /\ LiveParams # si.entry_values
  /\ Len(engine.history) >= 1
  /\ Len(engine.history) < ROLLOUT_STEPS
  /\ engine.tick_count = Len(engine.history)

\* C27: the number of rounds self_improve runs is fixed by the live engine's
\* convergence flag at the call: with the flag false exactly `iterations` rounds
\* run, with the flag true and iterations >= 1 exactly one round runs, and that
\* round still mutates and evaluates a candidate. (The round that ends the loop
\* is round si.i + 1; the live flag does not change during the call.)
C27_RoundsFixedByFlag ==
  [][(si.pc = "loop" /\ si'.pc = "idle")
       => /\ ~engine.model.convergence => si.i + 1 = si.iterations
          /\ engine.model.convergence
               => /\ si.i + 1 = 1
                  /\ mutations' = mutations + 1
                  /\ RoundCompleted
                  /\ Last(si'.trace).rollout.records = ROLLOUT_STEPS]_vars

\* C28: after every operation of an engine driven through step, simulate and
\* self_improve, history, efficiency_trend, entropy_trend and gap_trend all have
\* tick_count entries, and the k-th history record carries the tick index k and
\* the k-th value of efficiency_trend as its efficiency.
C28_RecordsAligned ==
  /\ Len(engine.history) = engine.tick_count
  /\ Len(engine.model.efficiency_trend) = engine.tick_count
  /\ Len(engine.model.entropy_trend) = engine.tick_count
  /\ Len(engine.model.gap_trend) = engine.tick_count
  /\ \A k \in 1..Len(engine.history) :
        /\ engine.history[k].tick = k
        /\ engine.history[k].efficiency = engine.model.efficiency_trend[k]

\* the engine has taken several steps and then completed a round of self_improve
C28_Witness ==
  /\ engine.tick_count >= 3
  /\ Len(engine.history) = engine.tick_count
  /\ Len(si.trace) >= 1
  /\ exc = "none"
  /\ Last(engine.history).tick = engine.tick_count
  /\ Last(engine.history).efficiency = Last(engine.model.efficiency_trend)

\* every record of h holds accelerations that are the forces divided by the
\* fixed weights (Love m_e, Justice J0, Power m_p, Wisdom 1.0), then clipped
FixedWeights(h) ==
  \A k \in 1..Len(h) : \A i \in 1..4 :
    h[k].accelerations[i]
      = Clip(Div(h[k].forces[i], <<m_e_semantic, J0, m_p_semantic, S>>[i]),
             -max_change, max_change)

C30_PhaseAgreesWithIsAutopoietic ==
  ret.call = "coordinates.is_autopoietic"
    => /\ InBounds(engine.state.L, engine.state.J, engine.state.P, engine.state.W)
       /\ ret.value <=> phase_mode(engine.state, ret.self_referential) = "AUTOPOIETIC"
       /\ ret.value <=> /\ harmony(engine.state, ret.self_referential) >= 6000
                        /\ engine.state.L >= 7000

\* is_autopoietic answered true in the self-referential mode for a state that
\* the static mode puts in another class
C30_Witness ==
  /\ ret.call = "coordinates.is_autopoietic"
  /\ ret.self_referential
  /\ ret.value
  /\ phase_mode(engine.state, TRUE) = "AUTOPOIETIC"
  /\ phase_mode(engine.state, FALSE) # "AUTOPOIETIC"

====
